---------------------------- MODULE Spec2Model ----------------------------
(***************************************************************************)
(* Model of inPolygon.contains (src/inPolygon.py): the argument checks,    *)
(* the scalar/array coercion of the query arguments, the lines() edge      *)
(* generator and the ray-casting crossing test.                            *)
(*                                                                         *)
(* Polygon coordinates are Python ints.  Query coordinates become          *)
(* numpy float64 values (np.asarray(..., dtype=float)), so the arithmetic  *)
(* of line 83 is IEEE-754 binary64 with round-to-nearest-even; it is       *)
(* modelled digit for digit on sign / integer part / binary fraction       *)
(* records (the exponent range is not bounded: no overflow, no             *)
(* subnormals).                                                            *)
(*                                                                         *)
(* Spec is one call of contains, from its arguments to its raise or        *)
(* return.  The test of line 40 compares the builtin len with an int and   *)
(* is always true, so no call on two lists gets past line 41.  The         *)
(* classification loop of lines 66-91 is therefore also modelled on its    *)
(* own, one statement at a time, from the state line 77 leaves: SpecCross  *)
(* (general polygons, several points), SpecOrient (points on and next to   *)
(* edges) and SpecRect (axis-aligned rectangles).                          *)
(***************************************************************************)
EXTENDS Integers, Sequences, FiniteSets

VARIABLES polyx, polyy, linex, liney, single_val, mask, i, result,
          p0, p1, k, yielded, divided, pc, outcome

vars == <<polyx, polyy, linex, liney, single_val, mask, i, result,
          p0, p1, k, yielded, divided, pc, outcome>>

(***************************************************************************)
(* float64                                                                 *)
(***************************************************************************)
\* significand width of numpy's dtype=float (binary64)
MantBits == 53

Abs(n) == IF n < 0 THEN -n ELSE n

RECURSIVE BitLen(_)
BitLen(n) == IF n = 0 THEN 0 ELSE 1 + BitLen(n \div 2)

\* position of the last b in bits, 0 if there is none
LastPos(bits, b) ==
    CHOOSE j \in 0..Len(bits) :
        /\ j = 0 \/ bits[j] = b
        /\ \A q \in (j + 1)..Len(bits) : bits[q] # b

StripZeros(bits) == SubSeq(bits, 1, LastPos(bits, 1))

\* number of 0 digits before the first 1
LeadingZeros(bits) ==
    CHOOSE z \in 0..Len(bits) :
        /\ \A q \in 1..z : bits[q] = 0
        /\ z = Len(bits) \/ bits[z + 1] = 1

\* bits + one unit in the last place: [c |-> carry out, b |-> bits]
AddOne(bits) ==
    LET z == LastPos(bits, 0) IN
    [c |-> IF z = 0 THEN 1 ELSE 0,
     b |-> [j \in 1..Len(bits) |-> IF j < z THEN bits[j] ELSE IF j = z THEN 1 ELSE 0]]

\* a finite float64: (-1)^neg * (int + 0.frac), frac a sequence of binary digits
Fin(neg, int, frac) == [cls |-> "fin", neg |-> neg, int |-> int, frac |-> StripZeros(frac)]
Inf(neg) == [cls |-> "inf", neg |-> neg, int |-> 0, frac |-> <<>>]
NaN == [cls |-> "nan", neg |-> FALSE, int |-> 0, frac |-> <<>>]

IsZero(f) == f.cls = "fin" /\ f.int = 0 /\ f.frac = <<>>

\* int -> float64 (exact below 2^53)
FromInt(n) == Fin(n < 0, Abs(n), <<>>)

\* round-to-nearest-even of (-1)^neg * (int + 0.frac + tail) to MantBits significant
\* bits, where tail < one unit of the last bit of frac and sticky says tail > 0
RoundSig(neg, int, frac, sticky) ==
    LET keep == IF int > 0 THEN MantBits - BitLen(int)
                ELSE LeadingZeros(frac) + MantBits
    IN  IF Len(frac) <= keep THEN Fin(neg, int, frac)
        ELSE LET kept  == SubSeq(frac, 1, keep)
                 guard == frac[keep + 1]
                 rest  == sticky \/ \E j \in (keep + 2)..Len(frac) : frac[j] = 1
                 lsb   == IF keep = 0 THEN int % 2 ELSE kept[keep]
                 up    == guard = 1 /\ (rest \/ lsb = 1)
                 inc   == AddOne(kept)
             IN  IF up THEN Fin(neg, int + inc.c, inc.b) ELSE Fin(neg, int, kept)

\* 1 - 0.bits for bits with at least one 1
Complement(bits) == AddOne([j \in 1..Len(bits) |-> 1 - bits[j]]).b

\* float64 + int
FAddInt(f, n) ==
    IF f.cls # "fin" THEN f
    ELSE LET m == Abs(n) IN
         IF n = 0 \/ IsZero(f) \/ f.neg = (n < 0)
         THEN RoundSig(IF IsZero(f) THEN n < 0 ELSE f.neg, f.int + m, f.frac, FALSE)
         ELSE IF m <= f.int THEN RoundSig(f.neg /\ (f.int > m \/ f.frac # <<>>),
                                          f.int - m, f.frac, FALSE)
         ELSE IF f.frac = <<>> THEN RoundSig(n < 0, m - f.int, <<>>, FALSE)
         ELSE RoundSig(n < 0, m - f.int - 1, Complement(f.frac), FALSE)

\* digits lo..hi of bits times m plus cin, from digit hi up:
\* [c |-> carry out of digit lo, b |-> digits]
RECURSIVE MulBlock(_, _, _, _, _)
MulBlock(bits, lo, hi, m, cin) ==
    IF lo > hi THEN [c |-> cin, b |-> <<>>]
    ELSE IF lo = hi THEN [c |-> (bits[lo] * m + cin) \div 2,
                          b |-> <<(bits[lo] * m + cin) % 2>>]
    ELSE LET mid   == (lo + hi) \div 2
             right == MulBlock(bits, mid + 1, hi, m, cin)
             left  == MulBlock(bits, lo, mid, m, right.c)
         IN  [c |-> left.c, b |-> left.b \o right.b]

MulBits(bits, m, cin) == MulBlock(bits, 1, Len(bits), m, cin)

\* int * float64
FMulInt(n, f) ==
    IF f.cls = "nan" THEN NaN
    ELSE IF f.cls = "inf" THEN (IF n = 0 THEN NaN ELSE Inf(f.neg # (n < 0)))
    ELSE LET r == MulBits(f.frac, Abs(n), 0) IN
         RoundSig(f.neg # (n < 0), f.int * Abs(n) + r.c, r.b, FALSE)

\* long division by m of digits lo..hi of the fraction (0 past its end), entered
\* with remainder r: [b |-> quotient digits, r |-> remainder left]; once the
\* fraction is used up and the remainder is 0 every further digit is 0 and is left out
RECURSIVE LongDiv(_, _, _, _, _)
LongDiv(frac, lo, hi, r, m) ==
    IF lo > hi \/ (r = 0 /\ lo > Len(frac)) THEN [b |-> <<>>, r |-> r]
    ELSE IF lo = hi
    THEN LET t == 2 * r + (IF lo <= Len(frac) THEN frac[lo] ELSE 0) IN
         [b |-> <<t \div m>>, r |-> t % m]
    ELSE LET mid   == (lo + hi) \div 2
             left  == LongDiv(frac, lo, mid, r, m)
             right == LongDiv(frac, mid + 1, hi, left.r, m)
         IN  [b |-> left.b \o right.b, r |-> right.r]

\* float64 / int (numpy: x/0 is inf or nan with a RuntimeWarning, no exception)
FDivInt(f, n) ==
    IF f.cls = "nan" THEN NaN
    ELSE IF f.cls = "inf" THEN Inf(f.neg # (n < 0))
    ELSE IF n = 0 THEN (IF IsZero(f) THEN NaN ELSE Inf(f.neg))
    ELSE LET m   == Abs(n)
             cnt == Len(f.frac) + BitLen(m) + MantBits + 2
             q   == LongDiv(f.frac, 1, cnt, f.int % m, m)
         IN  RoundSig(f.neg # (n < 0), f.int \div m, q.b, q.r # 0)

Digit(bits, j) == IF j <= Len(bits) THEN bits[j] ELSE 0

\* 0.a < 0.b
BitsLess(a, b) ==
    \E j \in 1..Len(b) :
        /\ Digit(a, j) < b[j]
        /\ \A q \in 1..(j - 1) : Digit(a, q) = b[q]

MagLess(f, g) == f.int < g.int \/ (f.int = g.int /\ BitsLess(f.frac, g.frac))

\* float64 < float64
FLess(f, g) ==
    IF f.cls = "nan" \/ g.cls = "nan" THEN FALSE
    ELSE IF f.cls = "inf" THEN f.neg /\ ~(g.cls = "inf" /\ g.neg)
    ELSE IF g.cls = "inf" THEN ~g.neg
    ELSE IF IsZero(f) /\ IsZero(g) THEN FALSE
    ELSE IF f.neg # g.neg THEN f.neg
    ELSE IF f.neg THEN MagLess(g, f) ELSE MagLess(f, g)


(***************************************************************************)
(* Python values                                                           *)
(***************************************************************************)
\* an argument is a number (iter() raises TypeError) or a list of numbers
Scalar(n) == [kind |-> "scalar", v |-> <<n>>]
List(s) == [kind |-> "list", v |-> s]
NdArray(s) == [kind |-> "ndarray", v |-> s]
Bool(b) == [kind |-> "bool", v |-> <<b>>]
PyInt(n) == [kind |-> "int", v |-> <<n>>]
\* the builtin function object bound to the name len
LenBuiltin == [kind |-> "builtin_function_or_method", v |-> <<"len">>]

\* iter(a) succeeds
Iterable(a) == a.kind # "scalar"

\* a != b: objects of unrelated types never compare equal
PyNe(a, b) == IF a.kind # b.kind THEN TRUE ELSE a.v # b.v

NoOutcome == [kind |-> "none", exc |-> "", msg |-> "", val |-> Bool(FALSE)]
Raise(exc, msg) == [kind |-> "raise", exc |-> exc, msg |-> msg, val |-> Bool(FALSE)]
Return(val) == [kind |-> "return", exc |-> "", msg |-> "", val |-> val]

IterableMsg == "polyx, polyy must be iterable"
SizeMsg == "polyx, poly must be of same size"
ThreePointsMsg == "polygon must consist of at least three points"
ShapeMsg == "linex, liney must be of same shape"

(***************************************************************************)
(* The crossing test                                                       *)
(***************************************************************************)
\* n > y for a polygon coordinate n and a float64 y
IntGreater(n, y) == FLess(y, FromInt(n))

\* (p0[1] > y) != (p1[1] > y) with both comparisons on the same side of y
StraddlesAtOrAbove(a0, a1, y) == (~FLess(FromInt(a0[2]), y)) # IntGreater(a1[2], y)

\* (p0[1] > y) != (p1[1] > y)
Straddles(a0, a1, y) == IntGreater(a0[2], y) # IntGreater(a1[2], y)

\* the interpolation taken from the edge's end point
InterpFromEnd(a0, a1, y) ==
    FAddInt(FDivInt(FMulInt(a1[1] - a0[1], FAddInt(y, -a0[2])), a1[2] - a0[2]), a1[1])

\* (p1[0]-p0[0])*(y-p0[1])/(p1[1]-p0[1]) + p0[0]
Interp(a0, a1, y) ==
    FAddInt(FDivInt(FMulInt(a1[1] - a0[1], FAddInt(y, -a0[2])), a1[2] - a0[2]), a0[1])

\* x <= xc
RayHitsOrTouches(x, xc) == FLess(x, xc) \/ (x.cls = "fin" /\ xc.cls = "fin" /\ ~FLess(xc, x))

\* x < xc
RayHits(x, xc) == FLess(x, xc)

\* the condition of line 83; `and` evaluates the interpolation only after the
\* straddle test succeeded
Crosses(a0, a1, x, y) == Straddles(a0, a1, y) /\ RayHits(x, Interp(a0, a1, y))

Vertex(px, py, j) == <<px[j], py[j]>>

\* p0 taken from the first vertex
FirstVertex(px, py) == Vertex(px, py, 1)

\* p0 = (polyx[-1], polyy[-1])
LastVertex(px, py) == Vertex(px, py, Len(px))

\* the j-th pair yielded by lines()
Edge(px, py, j) ==
    <<IF j = 1 THEN LastVertex(px, py) ELSE Vertex(px, py, j - 1), Vertex(px, py, j)>>

\* result after the first j edges of one point's walk
RECURSIVE Parity(_, _, _, _, _)
Parity(px, py, x, y, j) ==
    IF j = 0 THEN FALSE
    ELSE LET r == Parity(px, py, x, y, j - 1)
             e == Edge(px, py, j)
         IN  IF Crosses(e[1], e[2], x, y) THEN ~r ELSE r

\* one point's pass of the loop body, lines 79-85
Inside(px, py, x, y) == Parity(px, py, x, y, Len(px))

(***************************************************************************)
(* contains                                                                *)
(***************************************************************************)
\* the check as documented: len(polyx) != len(polyy)
SizesDiffer(px, py) == PyNe(PyInt(Len(px.v)), PyInt(Len(py.v)))

\* len != len(polyy)
SizeCheckFails(px, py) == PyNe(LenBuiltin, PyInt(Len(py.v)))

\* np.asarray([a], dtype=float) for a number, np.asarray(a, dtype=float) for a list
AsArray(a) ==
    IF Iterable(a) THEN [j \in 1..Len(a.v) |-> FromInt(a.v[j])] ELSE <<FromInt(a.v[1])>>

SingleVal(lx, ly) == ~Iterable(lx) /\ ~Iterable(ly)

ContainsOutcome(px, py, lx, ly) ==
    IF ~Iterable(px) \/ ~Iterable(py) THEN Raise("TypeError", IterableMsg)
    ELSE IF SizeCheckFails(px, py) THEN Raise("ValueError", SizeMsg)
    ELSE IF Len(px.v) < 3 THEN Raise("ValueError", ThreePointsMsg)
    ELSE LET ax == AsArray(lx)
             ay == AsArray(ly)
             m  == [j \in 1..Len(ax) |-> Inside(px.v, py.v, ax[j], ay[j])]
         IN  IF Len(ax) # Len(ay) THEN Raise("ValueError", ShapeMsg)
             ELSE IF SingleVal(lx, ly) THEN Return(Bool(m[1]))
             ELSE Return(NdArray(m))

\* one call of contains, from its first line to its raise or return
Contains ==
    /\ pc = "call"
    /\ outcome' = ContainsOutcome(polyx, polyy, linex, liney)
    /\ pc' = "done"
    /\ UNCHANGED <<polyx, polyy, linex, liney, single_val, mask, i, result,
                   p0, p1, k, yielded, divided>>

(***************************************************************************)
(* The classification loop, lines 66-91, statement by statement            *)
(***************************************************************************)
\* result carried over from the previous point
CarriedParity(prev) == prev

\* result = False
InitialParity(prev) == FALSE

\* lines 78-80 and the call lines() of line 82
PointStep ==
    /\ pc = "points"
    /\ i < Len(linex.v)
    /\ i' = i + 1
    /\ result' = InitialParity(result)
    /\ k' = 0
    /\ yielded' = <<>>
    /\ divided' = <<>>
    /\ pc' = "lines"
    /\ UNCHANGED <<polyx, polyy, linex, liney, single_val, mask, p0, p1, outcome>>

\* next() on the generator with a vertex left: lines 68-70 on the first call,
\* line 75 on a later one, then lines 71-74
LinesYield ==
    /\ pc = "lines"
    /\ k < Len(polyx.v)
    /\ LET from == IF k = 0 THEN LastVertex(polyx.v, polyy.v) ELSE p1 IN
         /\ p0' = from
         /\ p1' = Vertex(polyx.v, polyy.v, k + 1)
         /\ yielded' = Append(yielded, <<from, Vertex(polyx.v, polyy.v, k + 1)>>)
    /\ k' = k + 1
    /\ pc' = "test"
    /\ UNCHANGED <<polyx, polyy, linex, liney, single_val, mask, i, result,
                   divided, outcome>>

\* lines 83-84 for the pair just yielded; divided records, for each pair of this
\* walk, whether the division was evaluated (ev: the left operand of `and` was
\* true), whether the pair straddles y (str) and the divisor (den)
EdgeTest ==
    /\ pc = "test"
    /\ LET x == linex.v[i]
           y == liney.v[i]
       IN  /\ result' = IF Crosses(p0, p1, x, y) THEN ~result ELSE result
           /\ divided' = Append(divided,
                                 [ev  |-> Straddles(p0, p1, y),
                                  str |-> IntGreater(p0[2], y) # IntGreater(p1[2], y),
                                  den |-> p1[2] - p0[2]])
    /\ pc' = "lines"
    /\ UNCHANGED <<polyx, polyy, linex, liney, single_val, mask, i, p0, p1, k,
                   yielded, outcome>>

\* next() on the exhausted generator (line 75, then the for of line 71 ends),
\* and line 85
LinesStop ==
    /\ pc = "lines"
    /\ k = Len(polyx.v)
    /\ p0' = p1
    /\ mask' = [mask EXCEPT ![i] = result]
    /\ pc' = "points"
    /\ UNCHANGED <<polyx, polyy, linex, liney, single_val, i, result, p1, k,
                   yielded, divided, outcome>>

\* lines 87-91
Finish ==
    /\ pc = "points"
    /\ i = Len(linex.v)
    /\ outcome' = Return(IF single_val THEN Bool(mask[1]) ELSE NdArray(mask))
    /\ pc' = "done"
    /\ UNCHANGED <<polyx, polyy, linex, liney, single_val, mask, i, result,
                   p0, p1, k, yielded, divided>>

(***************************************************************************)
(* Inputs and specifications                                               *)
(***************************************************************************)
\* most vertices of a polygon argument
MaxVerts == 4
\* most query points of one call
MaxPts == 2
\* largest coordinate of a rectangle corner
MaxCoord == 2

SeqsUpTo(S, n) == UNION {[1..m -> S] : m \in 0..n}

Xs(vs) == [j \in 1..Len(vs) |-> vs[j][1]]
Ys(vs) == [j \in 1..Len(vs) |-> vs[j][2]]

PolyVals == {0, 4}
QueryVals == {2, 5}

\* coordinate arguments of a call: a number, a list of any length, the triangle
PolyArgs ==
    {Scalar(0)} \cup {List(s) : s \in SeqsUpTo(PolyVals, MaxVerts)}
                \cup {List(<<0, 10, 5>>), List(<<0, 0, 10>>)}

QueryArgs ==
    {Scalar(n) : n \in QueryVals} \cup {List(s) : s \in SeqsUpTo(QueryVals, MaxPts)}
                                  \cup {List(<<5, 0, 5>>), List(<<5, 10, 1>>)}

\* a call contains(polyx, polyy, linex, liney) about to run
Init ==
    /\ polyx \in PolyArgs
    /\ polyy \in PolyArgs
    /\ linex \in QueryArgs
    /\ liney \in QueryArgs
    /\ single_val = TRUE
    /\ mask = <<>>
    /\ i = 0
    /\ result = FALSE
    /\ p0 = <<0, 0>>
    /\ p1 = <<0, 0>>
    /\ k = 0
    /\ yielded = <<>>
    /\ divided = <<>>
    /\ pc = "call"
    /\ outcome = NoOutcome

Next == Contains

Spec == Init /\ [][Next]_vars

\* the state at line 77 for polygon vs and query points pts (float64 pairs):
\* the checks passed, linex and liney are arrays, mask is all False
AtLoop(vs, pts, sv) ==
    /\ polyx = List(Xs(vs))
    /\ polyy = List(Ys(vs))
    /\ linex = NdArray(Xs(pts))
    /\ liney = NdArray(Ys(pts))
    /\ single_val = sv
    /\ mask = [j \in 1..Len(pts) |-> FALSE]
    /\ i = 0
    /\ result = FALSE
    /\ p0 = <<0, 0>>
    /\ p1 = <<0, 0>>
    /\ k = 0
    /\ yielded = <<>>
    /\ divided = <<>>
    /\ pc = "points"
    /\ outcome = NoOutcome

Polygons(verts) == UNION {[1..n -> verts] : n \in 3..MaxVerts}

CrossVerts == {0, 2} \X {0, 2}
CrossPoints == {<<FromInt(1), FromInt(y)>> : y \in {0, 1}}

\* the loop on every polygon over CrossVerts and up to MaxPts query points
InitCross ==
    \E vs \in Polygons(CrossVerts), pts \in SeqsUpTo(CrossPoints, MaxPts) :
      \E sv \in (IF Len(pts) = 1 THEN BOOLEAN ELSE {FALSE}) : AtLoop(vs, pts, sv)

NextCross == PointStep \/ LinesYield \/ EdgeTest \/ LinesStop \/ Finish

SpecCross == InitCross /\ [][NextCross]_vars

OrientVerts == {0, 1} \X {0, 3}

\* abscissas worth asking about at height y: the grid, and where the code itself
\* puts each straddling edge
Abscissas(vs, y) ==
    {FromInt(x) : x \in {0, 1}}
    \cup {Interp(Edge(Xs(vs), Ys(vs), j)[1], Edge(Xs(vs), Ys(vs), j)[2], y) :
            j \in {e \in 1..Len(vs) :
                     Straddles(Edge(Xs(vs), Ys(vs), e)[1], Edge(Xs(vs), Ys(vs), e)[2], y)}}

\* the loop on one query point, on or next to an edge
InitOrient ==
    \E vs \in Polygons(OrientVerts), yi \in 0..3 :
      \E x \in Abscissas(vs, FromInt(yi)) : AtLoop(vs, <<<<x, FromInt(yi)>>>>, TRUE)

SpecOrient == InitOrient /\ [][NextCross]_vars

\* corners (a,c),(b,c),(b,d),(a,d) walked from corner s, forwards or backwards
Rectangle(a, b, c, d, s, rev) ==
    LET corners == <<<<a, c>>, <<b, c>>, <<b, d>>, <<a, d>>>> IN
    [j \in 1..4 |-> corners[((s + (IF rev THEN 4 - j ELSE j)) % 4) + 1]]

Halves == {FDivInt(FromInt(h), 2) : h \in (-1)..(2 * MaxCoord + 1)}

\* the loop on an axis-aligned rectangle and one query point of the half-unit grid
InitRect ==
    \E a \in 0..MaxCoord, b \in 0..MaxCoord, c \in 0..MaxCoord, d \in 0..MaxCoord :
      \E s \in 0..3, rev \in BOOLEAN, x \in Halves, y \in Halves :
        /\ a < b
        /\ c < d
        /\ AtLoop(Rectangle(a, b, c, d, s, rev), <<<<x, y>>>>, TRUE)

SpecRect == InitRect /\ [][NextCross]_vars

(***************************************************************************)
(* Properties                                                              *)
(***************************************************************************)
Called == pc = "done" /\ outcome.kind # "none"
ValidPolygon ==
    Iterable(polyx) /\ Iterable(polyy) /\ Len(polyx.v) = Len(polyy.v) /\ Len(polyx.v) >= 3
BothLists == Iterable(linex) /\ Iterable(liney)
BothScalars == ~Iterable(linex) /\ ~Iterable(liney)

\* the claims' own reading of the test: the number of edges (p0, p1) with
\* ((p0.y > y) != (p1.y > y)) and x < (p1.x-p0.x)*(y-p0.y)/(p1.y-p0.y) + p0.x is odd
OddCrossings(px, py, x, y) ==
    Cardinality({j \in 1..Len(px) :
        LET a0 == Vertex(px, py, IF j = 1 THEN Len(px) ELSE j - 1)
            a1 == Vertex(px, py, j)
        IN  /\ IntGreater(a0[2], y) # IntGreater(a1[2], y)
            /\ FLess(x, FAddInt(FDivInt(FMulInt(a1[1] - a0[1], FAddInt(y, -a0[2])),
                                        a1[2] - a0[2]), a0[1]))}) % 2 = 1

\* C1: for a polygon of equal-length coordinate lists, N >= 3, and query lists of
\* equal length, contains raises nothing and returns for each point whether an odd
\* number of edges cross its ray
C1_ReturnsCrossingParity ==
    (Called /\ ValidPolygon /\ BothLists /\ Len(linex.v) = Len(liney.v)) =>
        /\ outcome.kind = "return"
        /\ outcome.val = NdArray([j \in 1..Len(linex.v) |->
               OddCrossings(polyx.v, polyy.v, FromInt(linex.v[j]), FromInt(liney.v[j]))])

\* C2: with a valid polygon, two scalar query arguments give a single boolean and
\* two lists of length K give an array of K booleans, the j-th for the j-th point
C2_ResultShape ==
    (Called /\ ValidPolygon) =>
        /\ BothScalars => (outcome.kind = "return" /\ outcome.val.kind = "bool")
        /\ (BothLists /\ Len(linex.v) = Len(liney.v)) =>
              /\ outcome.kind = "return"
              /\ outcome.val.kind = "ndarray"
              /\ Len(outcome.val.v) = Len(linex.v)
              /\ \A j \in 1..Len(linex.v) :
                    outcome.val.v[j] = Inside(polyx.v, polyy.v, FromInt(linex.v[j]),
                                              FromInt(liney.v[j]))

C4_TooFewVertices ==
    (Called /\ Iterable(polyx) /\ Iterable(polyy) /\ Len(polyx.v) = Len(polyy.v)
            /\ Len(polyx.v) < 3) =>
        outcome = Raise("ValueError", ThreePointsMsg)

\* C5: with a valid polygon, query arguments of different shapes (lists of different
\* lengths, or a scalar with a list of any length) fail with the same-shape error
C5_ShapeMismatch ==
    (Called /\ ValidPolygon
            /\ \/ Iterable(linex) # Iterable(liney)
               \/ BothLists /\ Len(linex.v) # Len(liney.v)) =>
        outcome = Raise("ValueError", ShapeMsg)

Reversed(s) == [j \in 1..Len(s) |-> s[Len(s) + 1 - j]]
IsIntegral(f) == f.cls = "fin" /\ f.frac = <<>>
Looped == pc = "done" /\ outcome.kind = "return"

C7_PerPointIndependence ==
    pc \in {"points", "done"} =>
        \A j \in 1..i : mask[j] = Inside(polyx.v, polyy.v, linex.v[j], liney.v[j])

C7_Witness ==
    /\ Looped
    /\ Len(mask) = 2
    /\ mask[1]
    /\ ~mask[2]
    /\ outcome.val = NdArray(mask)

\* C8: the division of line 83 is evaluated only for an edge that straddles y, its
\* divisor p1.y - p0.y is then not 0, and a horizontal edge never reaches it
C8_NoDivisionByZero ==
    \A j \in 1..Len(divided) :
        LET e == yielded[j] IN
        /\ divided[j].ev =>
              (divided[j].str /\ divided[j].den = e[2][2] - e[1][2] /\ divided[j].den # 0)
        /\ e[1][2] = e[2][2] => ~divided[j].ev

\* a walk with a horizontal edge level with the query point, which was not
\* divided, and a later edge that was
C8_Witness ==
    /\ pc = "points"
    /\ Len(divided) = Len(polyx.v)
    /\ \E j \in 1..Len(divided) :
          /\ yielded[j][1][2] = yielded[j][2][2]
          /\ liney.v[i] = FromInt(yielded[j][1][2])
          /\ ~divided[j].ev
          /\ \E q \in (j + 1)..Len(divided) : divided[q].ev

\* C9: a run of lines() yields pair j = (vertex j-1, vertex j), the first from the
\* last vertex, N pairs in all, and does so again for every query point
C9_EdgeWalk ==
    LET n == Len(polyx.v) IN
    (i >= 1 /\ pc # "done") =>
        /\ Len(yielded) = k
        /\ k <= n
        /\ \A j \in 1..k :
              yielded[j] = <<Vertex(polyx.v, polyy.v, IF j = 1 THEN n ELSE j - 1),
                             Vertex(polyx.v, polyy.v, j)>>
        /\ pc = "points" => k = n

C9_Witness ==
    /\ pc = "points"
    /\ i = 2
    /\ Len(yielded) = 4
    /\ yielded[1][1] = <<polyx.v[4], polyy.v[4]>>
    /\ yielded[1][1] # yielded[1][2]

MinOf(s) == CHOOSE m \in {s[j] : j \in 1..Len(s)} : \A j \in 1..Len(s) : m <= s[j]
MaxOf(s) == CHOOSE m \in {s[j] : j \in 1..Len(s)} : \A j \in 1..Len(s) : m >= s[j]
\* lo <= f < hi
InHalfOpen(f, lo, hi) == ~FLess(f, FromInt(lo)) /\ FLess(f, FromInt(hi))

=============================================================================
